---------------------------- MODULE Spec2Model ----------------------------
(***************************************************************************)
(* A model of fcord/coords.py: the coordinate classes CartesianCoord,      *)
(* GPSCoord, ENUCoord and NEDCoord, their arithmetic, conversions, norms   *)
(* and message adapters.                                                   *)
(*                                                                         *)
(* Python objects live in a heap (a sequence of records, an object's       *)
(* identity is its index).  Every method takes the heap and the references *)
(* of its arguments and returns the heap after the call together with what *)
(* the call returned or raised, so that what a method does to its operands *)
(* is part of the model.                                                   *)
(*                                                                         *)
(* Floats are represented by integers (the finite values the model draws   *)
(* are integral; lengths in the geodetic formulas are kilometres, angles   *)
(* degrees, trigonometry is fixed point).  A yaw is NaN or a finite value  *)
(* <<v>>.                                                                  *)
(***************************************************************************)
EXTENDS Integers, Sequences, FiniteSets, TLC

VARIABLES heap, last
vars == <<heap, last>>

\* Components of the coordinates a caller constructs are drawn from 0..MaxVal.
MaxVal == 1
Vals == 0 .. MaxVal

\* float("nan"), the default yaw; a finite yaw v is <<v>>.
NaN == << >>
YawVals == {NaN, <<1>>}

---------------------------------------------------------------------------
(* Constructors *)

CartesianCoord(x, y, z) ==
    [cls |-> "CartesianCoord", x |-> x, y |-> y, z |-> z]

GPSCoord(lat, lon, alt, yaw) ==
    [cls |-> "GPSCoord", lat |-> lat, lon |-> lon, alt |-> alt, yaw |-> yaw]

ENUCoord(e, n, u, yaw) ==
    [cls |-> "ENUCoord", e |-> e, n |-> n, u |-> u, yaw |-> yaw]

NEDCoord(n, e, d, yaw) ==
    [cls |-> "NEDCoord", n |-> n, e |-> e, d |-> d, yaw |-> yaw]

\* The message classes of px4_interfaces.msg: a freshly constructed message
\* has every field at its default, 0.0.
Gps == [cls |-> "Gps", lat |-> 0, lon |-> 0, alt |-> 0, yaw |-> <<0>>]
Ned == [cls |-> "Ned", n |-> 0, e |-> 0, d |-> 0, yaw |-> <<0>>]

CoordClasses == {"CartesianCoord", "GPSCoord", "ENUCoord", "NEDCoord"}
MsgClasses == {"Gps", "Ned"}

\* hasattr(o, name)
hasattr(o, name) == name \in DOMAIN o

\* isinstance(o, C) for the classes of the module (none derives from another
\* coordinate class).
isinstance(o, c) == o.cls = c

---------------------------------------------------------------------------
(* The vector view: the property r of each class *)

CartesianCoord_r(o) == <<o.x, o.y, o.z>>
GPSCoord_r(o) == <<o.lat, o.lon, o.alt>>
ENUCoord_r(o) == <<o.e, o.n, o.u>>
NEDCoord_r_swapped(o) == <<o.e, o.n, o.d>>
NEDCoord_r(o) == <<o.n, o.e, o.d>>

r(o) ==
    CASE o.cls = "CartesianCoord" -> CartesianCoord_r(o)
      [] o.cls = "GPSCoord" -> GPSCoord_r(o)
      [] o.cls = "ENUCoord" -> ENUCoord_r(o)
      [] o.cls = "NEDCoord" -> NEDCoord_r(o)

---------------------------------------------------------------------------
(* What a call gives back: the heap after it, and a reference ("ref", val *)
(* the index), a float ("float", val), a list ("list", vec) or an         *)
(* exception ("raise", exc).                                               *)

Ret(h, kind, val, vec, exc) ==
    [heap |-> h, kind |-> kind, val |-> val, vec |-> vec, exc |-> exc]

\* A constructor call: a new object, distinct from every existing one.
New(h, o) == Ret(Append(h, o), "ref", Len(h) + 1, << >>, "")
Value(h, v) == Ret(h, "float", v, << >>, "")
List(h, s) == Ret(h, "list", 0, s, "")
Raise(h, e) == Ret(h, "raise", 0, << >>, e)

---------------------------------------------------------------------------
(* CartesianCoord.__add__ / __sub__ *)

CartesianCoord__add__coercing(h, self, other) ==
    IF h[other].cls \in CoordClasses
    THEN New(h, CartesianCoord(h[self].x + r(h[other])[1],
                               h[self].y + r(h[other])[2],
                               h[self].z + r(h[other])[3]))
    ELSE Raise(h, "ValueError")

CartesianCoord__add__(h, self, other) ==
    IF isinstance(h[other], "CartesianCoord")
    THEN New(h, CartesianCoord(h[self].x + h[other].x,
                               h[self].y + h[other].y,
                               h[self].z + h[other].z))
    ELSE Raise(h, "ValueError")

CartesianCoord__sub__keeps_z(h, self, other) ==
    IF isinstance(h[other], "CartesianCoord")
    THEN New(h, CartesianCoord(h[self].x - h[other].x,
                               h[self].y - h[other].y,
                               h[self].z))
    ELSE Raise(h, "ValueError")

CartesianCoord__sub__(h, self, other) ==
    IF isinstance(h[other], "CartesianCoord")
    THEN New(h, CartesianCoord(h[self].x - h[other].x,
                               h[self].y - h[other].y,
                               h[self].z - h[other].z))
    ELSE Raise(h, "ValueError")

---------------------------------------------------------------------------
(* ENU <-> NED *)

\* The constructors are called with three arguments: yaw takes its default.
ENUCoord_to_ned(h, self) ==
    New(h, NEDCoord(h[self].n, h[self].e, -h[self].u, NaN))

NEDCoord_to_enu_no_flip(h, self) ==
    New(h, ENUCoord(h[self].e, h[self].n, h[self].d, NaN))

NEDCoord_to_enu(h, self) ==
    New(h, ENUCoord(h[self].e, h[self].n, -h[self].d, NaN))

---------------------------------------------------------------------------
(* ENUCoord.__add__ / __sub__ *)

ENUCoord__add__in_place(h, self, other) ==
    IF isinstance(h[other], "ENUCoord")
    THEN Ret([h EXCEPT ![self] = ENUCoord(h[self].e + h[other].e,
                                          h[self].n + h[other].n,
                                          h[self].u + h[other].u, NaN)],
             "ref", self, << >>, "")
    ELSE Raise(h, "ValueError")

RECURSIVE ENUCoord__add__(_, _, _)
ENUCoord__add__(h, self, other) ==
    IF isinstance(h[other], "ENUCoord")
    THEN New(h, ENUCoord(h[self].e + h[other].e,
                         h[self].n + h[other].n,
                         h[self].u + h[other].u, NaN))
    ELSE IF isinstance(h[other], "NEDCoord")
    THEN LET t == NEDCoord_to_enu(h, other)
         IN  ENUCoord__add__(t.heap, self, t.val)
    ELSE Raise(h, "ValueError")

RECURSIVE ENUCoord__sub__(_, _, _)
ENUCoord__sub__(h, self, other) ==
    IF isinstance(h[other], "ENUCoord")
    THEN New(h, ENUCoord(h[self].e - h[other].e,
                         h[self].n - h[other].n,
                         h[self].u - h[other].u, NaN))
    ELSE IF isinstance(h[other], "NEDCoord")
    THEN LET t == NEDCoord_to_enu(h, other)
         IN  ENUCoord__sub__(t.heap, self, t.val)
    ELSE Raise(h, "ValueError")

---------------------------------------------------------------------------
(* NEDCoord.__add__ / __sub__ *)

RECURSIVE NEDCoord__add__(_, _, _)
NEDCoord__add__(h, self, other) ==
    IF isinstance(h[other], "NEDCoord")
    THEN New(h, NEDCoord(h[self].n + h[other].n,
                         h[self].e + h[other].e,
                         h[self].d + h[other].d, NaN))
    ELSE IF isinstance(h[other], "ENUCoord")
    THEN LET t == ENUCoord_to_ned(h, other)
         IN  NEDCoord__add__(t.heap, self, t.val)
    ELSE Raise(h, "ValueError")

RECURSIVE NEDCoord__sub__(_, _, _)
NEDCoord__sub__(h, self, other) ==
    IF isinstance(h[other], "NEDCoord")
    THEN New(h, NEDCoord(h[self].n - h[other].n,
                         h[self].e - h[other].e,
                         h[self].d - h[other].d, NaN))
    ELSE IF isinstance(h[other], "ENUCoord")
    THEN LET t == ENUCoord_to_ned(h, other)
         IN  NEDCoord__sub__(t.heap, self, t.val)
    ELSE Raise(h, "ValueError")

---------------------------------------------------------------------------
(* The binary operators self + other and self - other: the __add__ or     *)
(* __sub__ of the left operand's class; a class that defines none (no      *)
(* class defines __radd__ or __rsub__) makes the operator a TypeError.     *)

BinaryAdd(h, self, other) ==
    CASE h[self].cls = "CartesianCoord" -> CartesianCoord__add__(h, self, other)
      [] h[self].cls = "ENUCoord" -> ENUCoord__add__(h, self, other)
      [] h[self].cls = "NEDCoord" -> NEDCoord__add__(h, self, other)
      [] OTHER -> Raise(h, "TypeError")

BinarySub(h, self, other) ==
    CASE h[self].cls = "CartesianCoord" -> CartesianCoord__sub__(h, self, other)
      [] h[self].cls = "ENUCoord" -> ENUCoord__sub__(h, self, other)
      [] h[self].cls = "NEDCoord" -> NEDCoord__sub__(h, self, other)
      [] OTHER -> Raise(h, "TypeError")

---------------------------------------------------------------------------
(* Fixed-point arithmetic for the float operations of the norms and of     *)
(* ecef.                                                                   *)

Abs(x) == IF x < 0 THEN -x ELSE x

\* n ** 0.5 rounded down, for n >= 0; hi * hi stays below 2^31.
RECURSIVE SqrtBetween(_, _, _)
SqrtBetween(n, lo, hi) ==
    IF lo >= hi THEN lo
    ELSE LET mid == (lo + hi + 1) \div 2
         IN  IF mid * mid <= n THEN SqrtBetween(n, mid, hi)
             ELSE SqrtBetween(n, lo, mid - 1)

Sqrt(n) == SqrtBetween(n, 0, 46340)

\* sum([x ** 2 for x in s])
RECURSIVE SumSquares(_)
SumSquares(s) ==
    IF s = << >> THEN 0 ELSE Head(s) * Head(s) + SumSquares(Tail(s))

\* The unit of the trigonometric values and of the angles in radians: 1/Scale.
Scale == 10000

\* math.radians: 1 degree is 174.53 / Scale radians.
radians(deg) == (deg * 17453) \div 100

\* math.sin, math.cos by their series, in units of 1/Scale.
sin(x) == x - (x * x * x) \div (6 * Scale * Scale)
cos(x) == Scale - (x * x) \div (2 * Scale)

---------------------------------------------------------------------------
(* Coordinate: the norms.  l2_norm, horizontal_distance and               *)
(* vertical_distance are methods of the base class Coordinate, which      *)
(* CartesianCoord, ENUCoord and NEDCoord derive from and GPSCoord does    *)
(* not: on any other object the attribute lookup raises AttributeError.   *)

CoordinateSubclasses == {"CartesianCoord", "ENUCoord", "NEDCoord"}

Coordinate_l2_norm(h, self) ==
    IF h[self].cls \in CoordinateSubclasses
    THEN Value(h, Sqrt(SumSquares(r(h[self]))))
    ELSE Raise(h, "AttributeError")

Coordinate_horizontal_distance(h, self) ==
    IF h[self].cls \in CoordinateSubclasses
    THEN Value(h, Sqrt(SumSquares(SubSeq(r(h[self]), 1, 2))))
    ELSE Raise(h, "AttributeError")

Coordinate_vertical_distance(h, self) ==
    IF h[self].cls \in CoordinateSubclasses
    THEN Value(h, Abs(r(h[self])[3]))
    ELSE Raise(h, "AttributeError")

---------------------------------------------------------------------------
(* GPSCoord.ecef and GPSCoord.distance, lengths in kilometres *)

\* a, the semi-major axis: 6378137.0 m.
a == 6378
\* f, the flattening 1 / 298.257223563, in parts per million.
f == 3353
\* b = a * (1 - f)
b == a - (a * f) \div 1000000
\* e2 = (a ** 2 - b ** 2) / a ** 2, in parts per million.
e2 == ((a * a - b * b) * 1000) \div ((a * a) \div 1000)

GPSCoord_ecef(h, self) ==
    LET lat_rad == radians(h[self].lat)
        lon_rad == radians(h[self].lon)
        s2 == (sin(lat_rad) * sin(lat_rad)) \div Scale
        \* (1 - e2 * sin(lat_rad) ** 2) ** 0.5, in units of 1/Scale
        w == Sqrt((1000000 - (e2 * s2) \div Scale) * 100)
        N == (a * Scale) \div w
        x == ((((N + h[self].alt) * cos(lat_rad)) \div Scale) * cos(lon_rad)) \div Scale
        y == ((((N + h[self].alt) * cos(lat_rad)) \div Scale) * sin(lon_rad)) \div Scale
        z == ((N - (N * e2) \div 1000000 + h[self].alt) * sin(lat_rad)) \div Scale
    IN  New(h, CartesianCoord(x, y, z))

\* (self.ecef() - other.ecef()).l2_norm(): other.ecef is looked up after
\* self.ecef() has returned, and only GPSCoord has it.
GPSCoord_distance(h, self, other) ==
    LET p == GPSCoord_ecef(h, self)
    IN  IF ~isinstance(h[other], "GPSCoord") THEN Raise(p.heap, "AttributeError")
        ELSE LET q == GPSCoord_ecef(p.heap, other)
                 d == BinarySub(q.heap, p.val, q.val)
             IN  Coordinate_l2_norm(d.heap, d.val)

---------------------------------------------------------------------------
(* NEDCoord.to_gps: navpy's ned2lla is external; lla is what it returns.  *)
(* ref.lat, ref.lon and ref.alt are read to build its arguments.          *)

NEDCoord_to_gps(h, self, ref, lla) ==
    IF hasattr(h[ref], "lat") /\ hasattr(h[ref], "lon") /\ hasattr(h[ref], "alt")
    THEN New(h, GPSCoord(lla[1], lla[2], lla[3], NaN))
    ELSE Raise(h, "AttributeError")

---------------------------------------------------------------------------
(* Message adapters *)

GPSCoord_to_msg_no_yaw(h, self) ==
    New(h, [Gps EXCEPT !.lat = h[self].lat, !.lon = h[self].lon,
                       !.alt = h[self].alt])

GPSCoord_to_msg(h, self) ==
    New(h, [Gps EXCEPT !.lat = h[self].lat, !.lon = h[self].lon,
                       !.alt = h[self].alt, !.yaw = h[self].yaw])

\* Reading an attribute the message does not have raises AttributeError.
GPSCoord_from_msg(h, msg) ==
    IF hasattr(h[msg], "yaw")
    THEN IF hasattr(h[msg], "lat") /\ hasattr(h[msg], "lon") /\ hasattr(h[msg], "alt")
         THEN New(h, GPSCoord(h[msg].lat, h[msg].lon, h[msg].alt, h[msg].yaw))
         ELSE Raise(h, "AttributeError")
    ELSE IF hasattr(h[msg], "lat") /\ hasattr(h[msg], "lon") /\ hasattr(h[msg], "alt")
         THEN New(h, GPSCoord(h[msg].lat, h[msg].lon, h[msg].alt, NaN))
         ELSE Raise(h, "AttributeError")

NEDCoord_to_msg(h, self) ==
    New(h, [Ned EXCEPT !.n = h[self].n, !.e = h[self].e,
                       !.d = h[self].d, !.yaw = h[self].yaw])

NEDCoord_from_msg(h, msg) ==
    IF hasattr(h[msg], "n") /\ hasattr(h[msg], "e") /\ hasattr(h[msg], "d")
       /\ hasattr(h[msg], "yaw")
    THEN New(h, NEDCoord(h[msg].n, h[msg].e, h[msg].d, h[msg].yaw))
    ELSE Raise(h, "AttributeError")

---------------------------------------------------------------------------
(* The caller: two objects it has constructed or received, heap[1] and    *)
(* heap[2], and one call at a time on them.  last records the call made   *)
(* last: its operands, what it returned or raised, the heap before it,    *)
(* and, for a call made on the result of the call before, the object that *)
(* first call was made on (chain).                                        *)

Coords ==
    {CartesianCoord(x, y, z) : x \in Vals, y \in Vals, z \in Vals}
    \cup {GPSCoord(c[1], c[2], c[3], yaw) : c \in Vals \X Vals \X Vals, yaw \in YawVals}
    \cup {ENUCoord(c[1], c[2], c[3], yaw) : c \in Vals \X Vals \X Vals, yaw \in YawVals}
    \cup {NEDCoord(c[1], c[2], c[3], yaw) : c \in Vals \X Vals \X Vals, yaw \in YawVals}

\* Incoming messages: of the current definition, or of the one before yaw
\* was added to it.
Msgs ==
    {[cls |-> "Gps", lat |-> c[1], lon |-> c[2], alt |-> c[3], yaw |-> yaw] :
        c \in Vals \X Vals \X Vals, yaw \in YawVals}
    \cup {[cls |-> "Gps", lat |-> c[1], lon |-> c[2], alt |-> c[3]] :
        c \in Vals \X Vals \X Vals}
    \cup {[cls |-> "Ned", n |-> c[1], e |-> c[2], d |-> c[3], yaw |-> yaw] :
        c \in Vals \X Vals \X Vals, yaw \in YawVals}
    \cup {[cls |-> "Ned", n |-> c[1], e |-> c[2], d |-> c[3]] :
        c \in Vals \X Vals \X Vals}

NoCall ==
    [op |-> "none", self |-> 0, other |-> 0, kind |-> "none", val |-> 0,
     vec |-> << >>, exc |-> "", pre |-> << >>, chain |-> 0]

Init ==
    /\ \E o1 \in Coords \cup Msgs, o2 \in Coords : heap = <<o1, o2>>
    /\ last = NoCall

\* The call op(self, other) returned ret.
Do(op, self, other, ret, chain) ==
    /\ heap' = ret.heap
    /\ last' = [op |-> op, self |-> self, other |-> other, kind |-> ret.kind,
                val |-> ret.val, vec |-> ret.vec, exc |-> ret.exc,
                pre |-> heap, chain |-> chain]

Callable == last.op \in {"none", "setattr"}
IsCoord(o) == o.cls \in CoordClasses

Add ==
    /\ Callable /\ IsCoord(heap[1])
    /\ \E other \in {1, 2} : Do("add", 1, other, BinaryAdd(heap, 1, other), 0)

Sub ==
    /\ Callable /\ IsCoord(heap[1])
    /\ \E other \in {1, 2} : Do("sub", 1, other, BinarySub(heap, 1, other), 0)

ToNed ==
    /\ Callable /\ heap[1].cls = "ENUCoord"
    /\ Do("to_ned", 1, 0, ENUCoord_to_ned(heap, 1), 0)

ToEnu ==
    /\ Callable /\ heap[1].cls = "NEDCoord"
    /\ Do("to_enu", 1, 0, NEDCoord_to_enu(heap, 1), 0)

\* c.to_ned().to_enu() and c.to_enu().to_ned(): the second call.
ToEnuBack ==
    /\ last.op = "to_ned" /\ last.kind = "ref" /\ last.chain = 0
    /\ Do("to_enu", last.val, 0, NEDCoord_to_enu(heap, last.val), last.self)

ToNedBack ==
    /\ last.op = "to_enu" /\ last.kind = "ref" /\ last.chain = 0
    /\ Do("to_ned", last.val, 0, ENUCoord_to_ned(heap, last.val), last.self)

Ecef ==
    /\ Callable /\ heap[1].cls = "GPSCoord"
    /\ Do("ecef", 1, 0, GPSCoord_ecef(heap, 1), 0)

Distance ==
    /\ Callable /\ heap[1].cls = "GPSCoord"
    /\ \E other \in {1, 2} : Do("distance", 1, other, GPSCoord_distance(heap, 1, other), 0)

ToGps ==
    /\ Callable /\ heap[1].cls = "NEDCoord"
    /\ \E lla \in Vals \X Vals \X Vals :
          Do("to_gps", 1, 2, NEDCoord_to_gps(heap, 1, 2, lla), 0)

L2Norm ==
    /\ Callable /\ IsCoord(heap[1])
    /\ Do("l2_norm", 1, 0, Coordinate_l2_norm(heap, 1), 0)

HorizontalDistance ==
    /\ Callable /\ IsCoord(heap[1])
    /\ Do("horizontal_distance", 1, 0, Coordinate_horizontal_distance(heap, 1), 0)

VerticalDistance ==
    /\ Callable /\ IsCoord(heap[1])
    /\ Do("vertical_distance", 1, 0, Coordinate_vertical_distance(heap, 1), 0)

\* Reading the property c.r.
ReadR ==
    /\ Callable /\ IsCoord(heap[1])
    /\ Do("r", 1, 0, List(heap, r(heap[1])), 0)

ToMsg ==
    /\ Callable /\ heap[1].cls \in {"GPSCoord", "NEDCoord"}
    /\ Do("to_msg", 1, 0,
          IF heap[1].cls = "GPSCoord" THEN GPSCoord_to_msg(heap, 1)
          ELSE NEDCoord_to_msg(heap, 1), 0)

\* GPSCoord.from_msg on a Gps message, NEDCoord.from_msg on a Ned message.
from_msg(h, msg) ==
    IF h[msg].cls = "Gps" THEN GPSCoord_from_msg(h, msg) ELSE NEDCoord_from_msg(h, msg)

FromMsg ==
    /\ Callable /\ heap[1].cls \in MsgClasses
    /\ Do("from_msg", 1, 0, from_msg(heap, 1), 0)

\* from_msg(c.to_msg()): the second call.
FromMsgBack ==
    /\ last.op = "to_msg" /\ last.kind = "ref"
    /\ Do("from_msg", last.val, 0, from_msg(heap, last.val), last.self)

\* A direct assignment c.<field> = v to one of the three named fields.
Fields(o) ==
    CASE o.cls = "CartesianCoord" -> {"x", "y", "z"}
      [] o.cls = "GPSCoord" -> {"lat", "lon", "alt"}
      [] o.cls = "ENUCoord" -> {"e", "n", "u"}
      [] o.cls = "NEDCoord" -> {"n", "e", "d"}

SetField ==
    /\ last.op = "none" /\ IsCoord(heap[1])
    /\ \E fld \in Fields(heap[1]), v \in Vals :
          /\ heap' = [heap EXCEPT ![1] = [@ EXCEPT ![fld] = v]]
          /\ last' = [NoCall EXCEPT !.op = "setattr", !.self = 1, !.pre = heap]

\* The caller drops what the last call returned and goes on with its two
\* objects.
Discard ==
    /\ last.op # "none"
    /\ heap' = SubSeq(heap, 1, 2)
    /\ last' = NoCall

Next ==
    \/ Add \/ Sub
    \/ ToNed \/ ToEnu \/ ToEnuBack \/ ToNedBack
    \/ Ecef \/ Distance \/ ToGps
    \/ L2Norm \/ HorizontalDistance \/ VerticalDistance \/ ReadR
    \/ ToMsg \/ FromMsg \/ FromMsgBack
    \/ SetField \/ Discard

Spec == Init /\ [][Next]_vars

---------------------------------------------------------------------------
(* Properties *)

Self == last.pre[last.self]
Other == last.pre[last.other]
Result == heap[last.val]
IsArith == last.op \in {"add", "sub"}
LocalFrames == {"ENUCoord", "NEDCoord"}

\* C1 (as stated): L + R and L - R return a coordinate if and only if L and R
\* are the same frame or {L, R} = {ENUCoord, NEDCoord}; every other pairing
\* fails with an error.
C1_SameFrameOrConvertible ==
    IsArith =>
        /\ last.kind \in {"ref", "raise"}
        /\ last.kind = "ref" <=>
              \/ Self.cls = Other.cls
              \/ {Self.cls, Other.cls} = LocalFrames

\* C1 (amended): L + R and L - R return a coordinate if and only if L and R
\* are the same frame other than GPSCoord, or {L, R} = {ENUCoord, NEDCoord};
\* every other pairing (GPSCoord with GPSCoord included) raises an error and
\* returns nothing, and neither operand changes its type.
C1_ArithmeticDefined ==
    IsArith =>
        /\ last.kind \in {"ref", "raise"}
        /\ last.kind = "ref" <=>
              \/ Self.cls = Other.cls /\ Self.cls # "GPSCoord"
              \/ {Self.cls, Other.cls} = LocalFrames
        /\ last.kind = "ref" => IsCoord(Result)
        /\ last.kind = "raise" => last.exc \in {"ValueError", "TypeError"}
        /\ heap[last.self].cls = Self.cls
        /\ heap[last.other].cls = Other.cls

C1_Witness ==
    /\ last.op = "sub" /\ last.kind = "ref"
    /\ Self.cls = "NEDCoord" /\ Other.cls = "ENUCoord"

\* C2: from_msg of a message without a yaw field does not raise, and returns
\* a coordinate whose yaw is NaN and whose other fields are the message's.
C2_MissingYawTolerated ==
    (last.op = "from_msg" /\ ~hasattr(Self, "yaw")) =>
        /\ last.kind = "ref"
        /\ Result.yaw = NaN
        /\ \/ Self.cls = "Gps" /\ Result.cls = "GPSCoord"
              /\ <<Result.lat, Result.lon, Result.alt>> = <<Self.lat, Self.lon, Self.alt>>
           \/ Self.cls = "Ned" /\ Result.cls = "NEDCoord"
              /\ <<Result.n, Result.e, Result.d>> = <<Self.n, Self.e, Self.d>>

\* C3: from_msg(c.to_msg()) is a coordinate of the type of c with the
\* components and the yaw of c, a NaN yaw included.
C3_MessageRoundTrip ==
    (last.op = "from_msg" /\ last.chain # 0) =>
        /\ last.kind = "ref"
        /\ Result = heap[last.chain]

C3_Witness ==
    /\ last.op = "from_msg" /\ last.chain # 0 /\ last.kind = "ref"
    /\ heap[last.chain].cls = "NEDCoord" /\ heap[last.chain].yaw = NaN
    /\ heap[last.chain].d # 0

\* C4: c.to_ned().to_enu() and c.to_enu().to_ned() equal c in the three
\* components and in the yaw.
C4_RoundTripExact ==
    (last.op \in {"to_enu", "to_ned"} /\ last.chain # 0) =>
        /\ last.kind = "ref"
        /\ Result = heap[last.chain]

\* C5: the yaw of the result of + or - between ENU/NED coordinates is the
\* yaw of the left operand.
C5_YawFollowsLeft ==
    (IsArith /\ Self.cls \in LocalFrames /\ Other.cls \in LocalFrames) =>
        /\ last.kind = "ref"
        /\ Result.yaw = Self.yaw

\* C6: cross-frame arithmetic converts the right operand into the left
\* operand's frame and combines component-wise: ENU a + NED b is the ENUCoord
\* (a.e + b.e, a.n + b.n, a.u - b.d), a - b is (a.e - b.e, a.n - b.n,
\* a.u + b.d); NED a + ENU b is the NEDCoord (a.n + b.n, a.e + b.e,
\* a.d - b.u), a - b is (a.n - b.n, a.e - b.e, a.d + b.u).
C6_CrossFrameArithmetic ==
    /\ (IsArith /\ Self.cls = "ENUCoord" /\ Other.cls = "NEDCoord") =>
          /\ last.kind = "ref" /\ Result.cls = "ENUCoord"
          /\ <<Result.e, Result.n, Result.u>> =
                IF last.op = "add"
                THEN <<Self.e + Other.e, Self.n + Other.n, Self.u - Other.d>>
                ELSE <<Self.e - Other.e, Self.n - Other.n, Self.u + Other.d>>
    /\ (IsArith /\ Self.cls = "NEDCoord" /\ Other.cls = "ENUCoord") =>
          /\ last.kind = "ref" /\ Result.cls = "NEDCoord"
          /\ <<Result.n, Result.e, Result.d>> =
                IF last.op = "add"
                THEN <<Self.n + Other.n, Self.e + Other.e, Self.d - Other.u>>
                ELSE <<Self.n - Other.n, Self.e - Other.e, Self.d + Other.u>>

C6_Witness ==
    /\ last.op = "add" /\ last.kind = "ref"
    /\ Self.cls = "ENUCoord" /\ Other.cls = "NEDCoord"
    /\ Other.d # 0 /\ Other.e # Other.n

\* v with its third component replaced by w.
WithThird(v, w) ==
    CASE v.cls = "CartesianCoord" -> [v EXCEPT !.z = w]
      [] v.cls = "GPSCoord" -> [v EXCEPT !.alt = w]
      [] v.cls = "ENUCoord" -> [v EXCEPT !.u = w]
      [] v.cls = "NEDCoord" -> [v EXCEPT !.d = w]

\* C7: for a value v of any of the four coordinate types,
\* horizontal_distance(v) does not fail, and a value that differs from v only
\* in the third component has the same horizontal_distance.
C7_HorizontalDistanceDefined ==
    last.op = "horizontal_distance" =>
        /\ last.kind = "float"
        /\ \A w \in Vals :
              LET other == Coordinate_horizontal_distance(<<WithThird(Self, w)>>, 1)
              IN  other.kind = "float" /\ other.val = last.val

CallOps ==
    {"add", "sub", "to_ned", "to_enu", "ecef", "distance", "to_gps", "to_msg",
     "from_msg", "l2_norm", "horizontal_distance", "vertical_distance"}

\* C8: a call, successful or failing, leaves every field of every object that
\* existed before it as it was, and a coordinate it returns is a new object.
C8_NoMutation ==
    last.op \in CallOps =>
        /\ \A i \in DOMAIN last.pre : heap[i] = last.pre[i]
        /\ last.kind = "ref" => last.val \notin DOMAIN last.pre

C8_Witness ==
    /\ last.op = "add" /\ last.kind = "ref"
    /\ Self.cls = "ENUCoord" /\ Other.cls = "ENUCoord"
    /\ Other.e # 0

\* The named fields of a coordinate in the order of its frame.
FrameOrder(o) ==
    CASE o.cls = "CartesianCoord" -> <<o.x, o.y, o.z>>
      [] o.cls = "GPSCoord" -> <<o.lat, o.lon, o.alt>>
      [] o.cls = "ENUCoord" -> <<o.e, o.n, o.u>>
      [] o.cls = "NEDCoord" -> <<o.n, o.e, o.d>>

\* C9: in every state, also after direct assignments to the named fields, the
\* vector view r of a coordinate is the list of its current named fields in
\* frame order; an assignment that changes a field changes r.
C9_VectorViewCurrent ==
    /\ \A i \in DOMAIN heap : IsCoord(heap[i]) => r(heap[i]) = FrameOrder(heap[i])
    /\ last.op = "r" => last.vec = FrameOrder(heap[last.self])
    /\ (last.op = "setattr" /\ heap[last.self] # Self) =>
          r(heap[last.self]) # r(Self)

C9_Witness ==
    /\ last.op = "setattr" /\ heap[last.self] # Self
    /\ heap[last.self].cls = "NEDCoord" /\ heap[last.self].n # heap[last.self].e

\* C10: p.distance(q) equals q.distance(p), and is the l2_norm of the
\* component-wise difference ecef(p) - ecef(q).
C10_DistanceSymmetric ==
    (last.op = "distance" /\ Other.cls = "GPSCoord") =>
        LET back == GPSCoord_distance(last.pre, last.other, last.self)
            p == GPSCoord_ecef(last.pre, last.self)
            q == GPSCoord_ecef(last.pre, last.other)
            P == p.heap[p.val]
            Q == q.heap[q.val]
        IN  /\ last.kind = "float"
            /\ back.kind = "float" /\ back.val = last.val
            /\ last.val = Sqrt(SumSquares(<<P.x - Q.x, P.y - Q.y, P.z - Q.z>>))

C10_Witness ==
    /\ last.op = "distance" /\ last.kind = "float" /\ last.val > 0
    /\ Self.lat # Other.lat /\ Self.alt # Other.alt

===========================================================================
